---------------------------- MODULE Spec2Model ----------------------------
(* A model of json_parser.h: the copy-on-write string (cow_string), the   *)
(* node accessors, the recursive-descent json_reader and the json_writer. *)
(* Bytes are one-character strings; "NUL" is the terminator byte '\0'.    *)
(* Offsets and cursors are 0-based as in the source; TLA+ sequences are   *)
(* 1-based, so the byte at offset o of a block b is b[o + 1].             *)
EXTENDS Integers, Sequences, FiniteSets, TLC

VARIABLES
    heap,     \* cow_string: the shared char[] blocks, by block id (<<>> = not allocated)
    strs,     \* cow_string: the live cow_string objects, by slot (NoStr = no object)
    lastOp,   \* cow_string: the operation that produced this state
    src,      \* json_reader::src, the bytes of the input text
    pos,      \* json_reader::pos
    row,      \* json_reader::row
    column,   \* json_reader::column
    stack,    \* the active parse_array / parse_object calls, innermost last
    status,   \* where control is: in the writer, in one of the reader's functions, or out
    ret,      \* the Value the innermost finished parse_value call returns
    root,     \* the node parse() returned (NoNode before that)
    err,      \* the message of the exception parse() raised ("" when none)
    slice,    \* the cow_string the reader's last substr call made
    maxRead,  \* the highest index of src.storage read so far (-1 before any read)
    doc,      \* the node handed to json_writer::write (NoNode when none)
    out,      \* the bytes the json_writer has put on its output stream
    members,  \* the members the input text was composed from, when it is an object text
    acc       \* the outcome of the last node::operator[] on the root

cowVars == <<heap, strs, lastOp>>
readerVars == <<src, pos, row, column, stack, status, ret, root, err, slice, maxRead>>
docVars == <<doc, out, members, acc>>
vars == <<heap, strs, lastOp, src, pos, row, column, stack, status, ret, root, err,
          slice, maxRead, doc, out, members, acc>>

(***************************************************************************)
(* Bounds of the model.                                                    *)
(***************************************************************************)
MaxStrs == 2        \* cow_string objects alive at once

NUL == "NUL"
CowBytes == {"a", "b"}

(***************************************************************************)
(* cow_string                                                              *)
(***************************************************************************)
Slots == 1..MaxStrs
BufIds == 1..(MaxStrs + 1)
NoStr == [storage |-> 0, offset |-> 0, length |-> 0]

RECURSIVE SeqsUpTo(_, _)
SeqsUpTo(S, n) ==
    IF n = 0 THEN {<<>>}
    ELSE LET shorter == SeqsUpTo(S, n - 1)
         IN  shorter \cup {Append(q, c) : q \in {x \in shorter : Len(x) = n - 1}, c \in S}

\* the string_views a cow_string is constructed from, and the offsets into them
Views == {<<>>, <<"a">>, <<"a", "b">>, <<"b", "b">>}
Offsets == 0..2

\* storage.use_count(): the cow_string objects that hold block b
UseCount(st, b) == Cardinality({s \in Slots : st[s] # NoStr /\ st[s].storage = b})

\* a block is destroyed when the last shared_ptr to it goes away
Release(h, st) == [b \in BufIds |-> IF UseCount(st, b) = 0 THEN <<>> ELSE h[b]]

\* Block ids stand for addresses, so states that differ only in them are one state:
\* the live blocks are numbered in the order of the first slot that holds them.
RECURSIVE BlocksUpTo(_, _)
BlocksUpTo(st, s) ==
    IF s = 0 THEN <<>>
    ELSE LET before == BlocksUpTo(st, s - 1)
         IN  IF st[s] = NoStr \/ \E i \in 1..Len(before) : before[i] = st[s].storage
             THEN before ELSE Append(before, st[s].storage)
Settle(h, st) ==
    LET order == BlocksUpTo(st, MaxStrs)
    IN  [heap |-> [i \in BufIds |-> IF i <= Len(order) THEN h[order[i]] ELSE <<>>],
         strs |-> [s \in Slots |->
                      IF st[s] = NoStr THEN NoStr
                      ELSE [st[s] EXCEPT !.storage =
                               CHOOSE i \in 1..Len(order) : order[i] = st[s].storage]]]

\* std::make_shared<char[]>: a block that is not any live block
NewBuf(h) == CHOOSE b \in BufIds : h[b] = <<>> /\ \A c \in BufIds : h[c] = <<>> => b <= c

\* the bytes a cow_string views: storage[offset .. offset + length - 1]
Window(h, x) == SubSeq(h[x.storage], x.offset + 1, x.offset + x.length)

\* operator[](size_t) const: storage[offset + index]
ReadByte(h, x, index) == h[x.storage][x.offset + index + 1]

\* cow_string(std::string_view): a block of size + 1 bytes, the view and '\0'
CowConstruct(h, st, s, view) ==
    LET b == NewBuf(h)
    IN  [heap |-> [h EXCEPT ![b] = Append(view, NUL)],
         strs |-> [st EXCEPT ![s] = [storage |-> b, offset |-> 0, length |-> Len(view)]]]

\* cow_string::copy(): a private block holding the window and '\0'; offset = 0
CowCopy(h, st, s) ==
    LET b   == NewBuf(h)
        st2 == [st EXCEPT ![s] = [storage |-> b, offset |-> 0, length |-> st[s].length]]
        h2  == [h EXCEPT ![b] = Append(Window(h, st[s]), NUL)]
    IN  [heap |-> Release(h2, st2), strs |-> st2]

\* cow_string::substr(offset, count): a copy of *this with offset += offset, length = count
CowSubstr(x, off, count) ==
    [storage |-> x.storage, offset |-> x.offset + off, length |-> count]

\* a variant with a fault: the write goes to the block in place even when it is shared
ProxyAssignInPlace(h, st, s, index, c) ==
    [heap |-> [h EXCEPT ![st[s].storage][st[s].offset + index + 1] = c], strs |-> st]

\* char_proxy::operator=(char): copy() when the block is shared, then store
ProxyAssign(h, st, s, index, c) ==
    LET pre == IF UseCount(st, st[s].storage) > 1
               THEN CowCopy(h, st, s)
               ELSE [heap |-> h, strs |-> st]
        x   == pre.strs[s]
    IN  [heap |-> [pre.heap EXCEPT ![x.storage][x.offset + index + 1] = c],
         strs |-> pre.strs]

\* cow_string::c_str(): the block itself when the window starts it and ends at a '\0'
CowCStr(h, st, s) ==
    IF st[s].offset = 0 /\ ReadByte(h, st[s], st[s].length) = NUL
    THEN [heap |-> h, strs |-> st]
    ELSE CowCopy(h, st, s)

CowInit ==
    /\ heap = [b \in BufIds |-> <<>>]
    /\ strs = [s \in Slots |-> NoStr]
    /\ lastOp = [op |-> "none"]
    /\ src = <<>> /\ pos = 0 /\ row = 1 /\ column = 0 /\ stack = <<>>
    /\ status = "idle" /\ ret = [kind |-> "Null"] /\ root = [kind |-> "None"] /\ err = ""
    /\ slice = [offset |-> 0, length |-> 0] /\ maxRead = -1
    /\ doc = [kind |-> "None"] /\ out = <<>> /\ members = <<>> /\ acc = [op |-> "none"]

Construct(s, view) ==
    /\ strs[s] = NoStr
    /\ LET r == CowConstruct(heap, strs, s, view)
           n == Settle(r.heap, r.strs)
       IN  heap' = n.heap /\ strs' = n.strs
    /\ lastOp' = [op |-> "construct"]
    /\ UNCHANGED <<readerVars, docVars>>

CopyConstruct(from, to) ==
    /\ strs[from] # NoStr /\ strs[to] = NoStr
    /\ LET n == Settle(heap, [strs EXCEPT ![to] = strs[from]])
       IN  heap' = n.heap /\ strs' = n.strs
    /\ lastOp' = [op |-> "copy"]
    /\ UNCHANGED <<readerVars, docVars>>

Substr(from, to, off, count) ==
    /\ strs[from] # NoStr /\ strs[to] = NoStr
    /\ off + count <= strs[from].length
    /\ LET n == Settle(heap, [strs EXCEPT ![to] = CowSubstr(strs[from], off, count)])
       IN  heap' = n.heap /\ strs' = n.strs
    /\ lastOp' = [op |-> "substr"]
    /\ UNCHANGED <<readerVars, docVars>>

CStr(s) ==
    /\ strs[s] # NoStr
    /\ LET r == CowCStr(heap, strs, s)
           n == Settle(r.heap, r.strs)
       IN  heap' = n.heap /\ strs' = n.strs
    /\ lastOp' = [op |-> "c_str"]
    /\ UNCHANGED <<readerVars, docVars>>

IndexedWrite(s, index, c) ==
    /\ strs[s] # NoStr
    /\ index < strs[s].length
    /\ LET r == ProxyAssign(heap, strs, s, index, c)
           n == Settle(r.heap, r.strs)
       IN  heap' = n.heap /\ strs' = n.strs
    /\ lastOp' = [op |-> "write", s |-> s, index |-> index, c |-> c,
                  shared |-> UseCount(strs, strs[s].storage) > 1]
    /\ UNCHANGED <<readerVars, docVars>>

Destroy(s) ==
    /\ strs[s] # NoStr
    /\ LET n == Settle(heap, [strs EXCEPT ![s] = NoStr])
       IN  heap' = n.heap /\ strs' = n.strs
    /\ lastOp' = [op |-> "destroy"]
    /\ UNCHANGED <<readerVars, docVars>>

CowNext ==
    \/ \E s \in Slots, view \in Views : Construct(s, view)
    \/ \E from \in Slots, to \in Slots : CopyConstruct(from, to)
    \/ \E from \in Slots, to \in Slots, off \in Offsets, count \in Offsets :
           Substr(from, to, off, count)
    \/ \E s \in Slots : CStr(s)
    \/ \E s \in Slots, index \in Offsets, c \in CowBytes :
           IndexedWrite(s, index, c)
    \/ \E s \in Slots : Destroy(s)

CowSpec == CowInit /\ [][CowNext]_vars

\* every live cow_string holds a live block and views bytes inside it
CowTypeOK ==
    \A s \in Slots : strs[s] # NoStr =>
        /\ heap[strs[s].storage] # <<>>
        /\ strs[s].offset + strs[s].length < Len(heap[strs[s].storage])

(***************************************************************************)
(* C1. COW isolation: an indexed write s[i] = c with i < s.size() leaves   *)
(* the bytes read through every other cow_string unchanged; s itself then  *)
(* reads c at i, and its other bytes and its size are unchanged.           *)
(***************************************************************************)
C1_CowIsolation ==
    [][lastOp'.op = "write" =>
        LET s == lastOp'.s
        IN  /\ \A t \in Slots \ {s} : strs[t] # NoStr =>
                   /\ strs'[t] # NoStr
                   /\ Window(heap', strs'[t]) = Window(heap, strs[t])
            /\ strs'[s].length = strs[s].length
            /\ \A i \in 0..(strs[s].length - 1) :
                   ReadByte(heap', strs'[s], i) =
                       IF i = lastOp'.index THEN lastOp'.c ELSE ReadByte(heap, strs[s], i)
    ]_vars

\* a write went to a block that was shared, and the other cow_string still reads the old byte
C1_Witness ==
    /\ lastOp.op = "write" /\ lastOp.shared
    /\ \E t \in Slots \ {lastOp.s} :
           /\ strs[t] # NoStr
           /\ strs[t].offset = 0 /\ strs[t].length = strs[lastOp.s].length
           /\ ReadByte(heap, strs[t], lastOp.index) # lastOp.c


(***************************************************************************)
(* Bytes                                                                   *)
(***************************************************************************)
DQ == "\""
DigitChars == <<"0", "1", "2", "3", "4", "5", "6", "7", "8", "9">>
LetterChars == <<"a", "b", "c", "d", "e", "f", "g", "h", "i", "j", "k", "l", "m",
                 "n", "o", "p", "q", "r", "s", "t", "u", "v", "w", "x", "y", "z">>

\* std::isdigit
IsDigit(c) == \E i \in 1..Len(DigitChars) : DigitChars[i] = c
DigitVal(c) == (CHOOSE i \in 1..Len(DigitChars) : DigitChars[i] = c) - 1
\* std::isspace
IsSpace(c) == c \in {" ", "\t", "\n", "\r", "\f"}

\* the value of a byte as unsigned char, which std::char_traits<char>::compare orders by
Ord(c) ==
    CASE c = NUL -> 0
      [] c = "\t" -> 9
      [] c = "\n" -> 10
      [] c = "\f" -> 12
      [] c = "\r" -> 13
      [] c = " " -> 32
      [] c = DQ -> 34
      [] c = "+" -> 43
      [] c = "," -> 44
      [] c = "-" -> 45
      [] c = "." -> 46
      [] c = ":" -> 58
      [] c = "[" -> 91
      [] c = "]" -> 93
      [] c = "{" -> 123
      [] c = "}" -> 125
      [] IsDigit(c) -> 48 + DigitVal(c)
      [] OTHER -> 96 + (CHOOSE i \in 1..Len(LetterChars) : LetterChars[i] = c)

Min(x, y) == IF x <= y THEN x ELSE y
Max(x, y) == IF x >= y THEN x ELSE y

(***************************************************************************)
(* Value and node                                                          *)
(***************************************************************************)
NoNode == [kind |-> "None"]
Null == [kind |-> "Null"]
Bool(b) == [kind |-> "Bool", b |-> b]
Integer(n) == [kind |-> "Integer", n |-> n]
\* a double, as its significant decimal digits d1 d2 ... (no leading or trailing zero)
\* and the decimal exponent of d1: d1.d2d3... * 10^exp10; zero is <<>>, 0
Float(digits, exp10) == [kind |-> "Float", digits |-> digits, exp10 |-> exp10]
\* a cow_string Value, by the bytes of its window
String(bytes) == [kind |-> "String", bytes |-> bytes]
Array(items) == [kind |-> "Array", items |-> items]
\* a std::map<String, node>: its entries in iteration order
Object(entries) == [kind |-> "Object", entries |-> entries]

\* std::char_traits<char>::compare(pa, pb, n), from byte i on
RECURSIVE Compare(_, _, _, _)
Compare(a, b, i, n) ==
    IF i > n THEN 0
    ELSE IF a[i] = b[i] THEN Compare(a, b, i + 1, n)
    ELSE IF Ord(a[i]) < Ord(b[i]) THEN -1 ELSE 1

\* cow_string::operator<
Less(a, b) ==
    LET n   == Min(Len(a), Len(b))
        cmp == Compare(a, b, 1, n)
    IN  IF cmp < 0 THEN TRUE
        ELSE IF cmp > 0 THEN FALSE
        ELSE Len(a) < Len(b)

\* std::map::lower_bound: the position of the first entry whose key is not less than key
LowerBound(entries, key) ==
    1 + Cardinality({i \in 1..Len(entries) : Less(entries[i].key, key)})

MapHas(entries, key) ==
    LET i == LowerBound(entries, key)
    IN  i <= Len(entries) /\ ~Less(key, entries[i].key)

\* std::map::operator[]: key -> node() is inserted when key is absent
MapIndex(entries, key) ==
    LET i == LowerBound(entries, key)
    IN  IF MapHas(entries, key) THEN entries
        ELSE SubSeq(entries, 1, i - 1) \o <<[key |-> key, value |-> Null]>>
                 \o SubSeq(entries, i, Len(entries))

MapAt(entries, key) == entries[LowerBound(entries, key)].value

\* a variant with a fault: the first value of a key is kept
MapAssignKeepFirst(entries, key, v) ==
    IF MapHas(entries, key) THEN entries
    ELSE LET e == MapIndex(entries, key)
         IN  [e EXCEPT ![LowerBound(e, key)].value = v]

\* obj[key] = node{value}
MapAssign(entries, key, v) ==
    LET e == MapIndex(entries, key)
    IN  [e EXCEPT ![LowerBound(e, key)].value = v]

(***************************************************************************)
(* std::from_chars                                                         *)
(***************************************************************************)
\* the index after the digits of run that start at index i
RECURSIVE DigitsEnd(_, _)
DigitsEnd(run, i) ==
    IF i <= Len(run) /\ IsDigit(run[i]) THEN DigitsEnd(run, i + 1) ELSE i

RECURSIVE NatOf(_)
NatOf(ds) ==
    IF ds = <<>> THEN 0
    ELSE 10 * NatOf(SubSeq(ds, 1, Len(ds) - 1)) + DigitVal(ds[Len(ds)])

RECURSIVE StripLeading(_, _)
StripLeading(ds, z) == IF ds # <<>> /\ ds[1] = z THEN StripLeading(Tail(ds), z) ELSE ds
RECURSIVE StripTrailing(_, _)
StripTrailing(ds, z) ==
    IF ds # <<>> /\ ds[Len(ds)] = z THEN StripTrailing(SubSeq(ds, 1, Len(ds) - 1), z) ELSE ds

\* digit strings of equal length, compared as numbers
RECURSIVE DigitsGreater(_, _)
DigitsGreater(a, b) ==
    IF a = <<>> THEN FALSE
    ELSE IF a[1] # b[1] THEN DigitVal(a[1]) > DigitVal(b[1])
    ELSE DigitsGreater(Tail(a), Tail(b))

\* INT64_MAX = 9223372036854775807 and DBL_MAX = 1.7976931348623157e308
Int64MaxText == <<"9", "2", "2", "3", "3", "7", "2", "0", "3", "6", "8", "5", "4", "7", "7",
                  "5", "8", "0", "7">>
DblMaxText == <<"1", "7", "9", "7", "6", "9", "3", "1", "3", "4", "8", "6", "2", "3", "1",
                "5", "7">>
DblMaxExp10 == 308

Pad(ds, n) == ds \o [i \in 1..(n - Len(ds)) |-> "0"]

\* std::from_chars(first, last, Integer&): [ok, n]; the run holds digits only
FromCharsInteger(run) ==
    LET n  == DigitsEnd(run, 1) - 1
        ds == StripLeading(SubSeq(run, 1, n), "0")
    IN  IF n = 0 THEN [ok |-> FALSE, ec |-> "invalid_argument"]
        ELSE IF Len(ds) > Len(Int64MaxText)
                \/ (Len(ds) = Len(Int64MaxText) /\ DigitsGreater(ds, Int64MaxText))
             THEN [ok |-> FALSE, ec |-> "result_out_of_range"]
        ELSE [ok |-> TRUE, val |-> Integer(NatOf(ds))]

\* std::from_chars(first, last, Float&): [ok, val]. The longest prefix that is
\* digits [. digits] [e digits] with a digit in the mantissa is converted; what
\* follows it in the run is left unread
FromCharsFloat(run) ==
    LET i1     == DigitsEnd(run, 1)
        hasDot == i1 <= Len(run) /\ run[i1] = "."
        i2     == IF hasDot THEN DigitsEnd(run, i1 + 1) ELSE i1
        intDs  == SubSeq(run, 1, i1 - 1)
        fracDs == IF hasDot THEN SubSeq(run, i1 + 1, i2 - 1) ELSE <<>>
        hasExp == i2 < Len(run) /\ run[i2] = "e" /\ IsDigit(run[i2 + 1])
        i3     == IF hasExp THEN DigitsEnd(run, i2 + 1) ELSE i2
        e      == IF hasExp THEN NatOf(SubSeq(run, i2 + 1, i3 - 1)) ELSE 0
        all    == intDs \o fracDs
        sig    == StripLeading(all, "0")
        exp10  == Len(intDs) - 1 - (Len(all) - Len(sig)) + e
        digits == StripTrailing(sig, "0")
        big    == Pad(digits, Len(DblMaxText))
    IN  IF all = <<>> THEN [ok |-> FALSE, ec |-> "invalid_argument"]
        ELSE IF digits = <<>> THEN [ok |-> TRUE, val |-> Float(<<>>, 0)]
        ELSE IF exp10 > DblMaxExp10
                \/ (exp10 = DblMaxExp10
                    /\ DigitsGreater(SubSeq(big, 1, Len(DblMaxText)), DblMaxText))
             THEN [ok |-> FALSE, ec |-> "result_out_of_range"]
        ELSE [ok |-> TRUE, val |-> Float([i \in 1..Len(digits) |-> DigitVal(digits[i])], exp10)]

(***************************************************************************)
(* json_writer                                                             *)
(***************************************************************************)
\* std::ostream's default precision
Precision == 6

RECURSIVE NatText(_)
NatText(n) ==
    IF n < 10 THEN <<DigitChars[n + 1]>>
    ELSE Append(NatText(n \div 10), DigitChars[(n % 10) + 1])

\* output << Integer
IntegerText(n) == IF n < 0 THEN <<"-">> \o NatText(-n) ELSE NatText(n)

DigitText(ds) == [i \in 1..Len(ds) |-> DigitChars[ds[i] + 1]]
Zeros(n) == [i \in 1..n |-> "0"]

RECURSIVE NatDigits(_)
NatDigits(n) == IF n < 10 THEN <<n>> ELSE Append(NatDigits(n \div 10), n % 10)
RECURSIVE DigitsNat(_)
DigitsNat(ds) ==
    IF ds = <<>> THEN 0 ELSE 10 * DigitsNat(SubSeq(ds, 1, Len(ds) - 1)) + ds[Len(ds)]

\* the digits rounded to Precision significant digits: [digits, exp10]
RoundToPrecision(digits, exp10) ==
    IF Len(digits) <= Precision THEN [digits |-> digits, exp10 |-> exp10]
    ELSE LET kept == DigitsNat(SubSeq(digits, 1, Precision))
             up   == IF digits[Precision + 1] >= 5 THEN kept + 1 ELSE kept
             ds   == NatDigits(up)
         IN  [digits |-> StripTrailing(ds, 0),
              exp10  |-> IF Len(ds) > Precision THEN exp10 + 1 ELSE exp10]

\* output << Float: printf's %g with the default precision
FloatText(value) ==
    IF value.digits = <<>> THEN <<"0">>
    ELSE LET r  == RoundToPrecision(value.digits, value.exp10)
             ds == DigitText(r.digits)
             x  == r.exp10
             n  == Len(ds)
         IN  IF x < -4 \/ x >= Precision
             THEN <<ds[1]>> \o (IF n > 1 THEN <<".">> \o Tail(ds) ELSE <<>>)
                      \o <<"e", IF x < 0 THEN "-" ELSE "+">>
                      \o (LET ax == IF x < 0 THEN -x ELSE x
                          IN  IF ax < 10 THEN <<"0">> \o NatText(ax) ELSE NatText(ax))
             ELSE IF x >= n - 1 THEN ds \o Zeros(x - n + 1)
             ELSE IF x >= 0 THEN SubSeq(ds, 1, x + 1) \o <<".">> \o SubSeq(ds, x + 2, n)
             ELSE <<"0", ".">> \o Zeros(-x - 1) \o ds

\* output << const char*: the bytes up to the first '\0'
RECURSIVE UpToNul(_)
UpToNul(bytes) ==
    IF bytes = <<>> \/ bytes[1] = NUL THEN <<>> ELSE <<bytes[1]>> \o UpToNul(Tail(bytes))

\* json_writer::write(node): the bytes put on the output stream
RECURSIVE WriteText(_)
RECURSIVE WriteItems(_, _)
RECURSIVE WriteEntries(_, _)
WriteItems(items, i) ==
    IF i > Len(items) THEN <<>>
    ELSE WriteText(items[i]) \o (IF i # Len(items) THEN <<",">> ELSE <<>>)
             \o WriteItems(items, i + 1)
WriteEntries(entries, i) ==
    IF i > Len(entries) THEN <<>>
    ELSE <<DQ>> \o entries[i].key \o <<DQ, ":">> \o WriteText(entries[i].value)
             \o (IF i # Len(entries) THEN <<",">> ELSE <<>>)
             \o WriteEntries(entries, i + 1)
WriteText(v) ==
    CASE v.kind = "Null" -> <<"n", "u", "l", "l">>
      [] v.kind = "Bool" -> IF v.b THEN <<"t", "r", "u", "e">> ELSE <<"f", "a", "l", "s", "e">>
      [] v.kind = "Integer" -> IntegerText(v.n)
      [] v.kind = "Float" -> FloatText(v)
      [] v.kind = "String" -> <<DQ>> \o UpToNul(v.bytes) \o <<DQ>>
      [] v.kind = "Array" -> <<"[">> \o WriteItems(v.items, 1) \o <<"]">>
      [] v.kind = "Object" -> <<"{">> \o WriteEntries(v.entries, 1) \o <<"}">>

(***************************************************************************)
(* json_reader: the functions that parse one token                         *)
(***************************************************************************)
\* src[i], a read of src.storage[i]: the text, then its terminator at index size
At(s, i) == IF i < Len(s) THEN s[i + 1] ELSE NUL

\* json_reader::skip_whitespace: [pos, row, column] when the loop ends
RECURSIVE SkipWhitespace(_, _, _, _)
SkipWhitespace(s, p, r, c) ==
    IF p < Len(s) /\ IsSpace(At(s, p))
    THEN IF At(s, p) = "\n"
         THEN SkipWhitespace(s, p + 1, r + 1, 1)
         ELSE SkipWhitespace(s, p + 1, r, c + 1)
    ELSE [pos |-> p, row |-> r, column |-> c]

\* the highest index a loop guarded by i < size reads when it runs from p and stops at q
ScanHigh(s, p, q) == IF p >= Len(s) THEN -1 ELSE Min(q, Len(s) - 1)

\* cow_string::find(c, pos): the index of the first c at or after p, or npos (-1)
RECURSIVE Find(_, _, _)
Find(s, c, p) ==
    IF p >= Len(s) THEN -1
    ELSE IF At(s, p) = c THEN p
    ELSE Find(s, c, p + 1)

\* what a parse function leaves: where control goes, the Value, the cursor, the
\* exception's message, the cow_string it took with substr, the highest index read
Outcome(st, val, p, msg, off, len, hi) ==
    [status |-> st, val |-> val, pos |-> p, err |-> msg,
     slice |-> [offset |-> off, length |-> len], hi |-> hi]

\* parse_null, parse_true, parse_false: src.substr(pos, n) == literal, by operator==(const char*).
\* The window is n bytes whatever is left of the text; std::equal reads it all, and
\* when it runs past the block (size + 1 bytes) the read is undefined behaviour: the
\* bytes inside the block already differ from the literal, so either the exception
\* is raised or the read itself aborts the program.
ParseLiteral(s, p, literal, val) ==
    LET n == Len(literal)
    IN  IF p + n > Len(s) + 1
        THEN {Outcome("error", Null, p, "Illegal token", p, n, p + n - 1),
              Outcome("undefined", Null, p, "", p, n, p + n - 1)}
        ELSE IF [i \in 1..n |-> At(s, p + i - 1)] = literal
        THEN {Outcome("ret", val, p + n, "", p, n, p + n - 1)}
        ELSE {Outcome("error", Null, p, "Illegal token", p, n, p + n - 1)}

ParseNull(s, p) == ParseLiteral(s, p, <<"n", "u", "l", "l">>, Null)
ParseTrue(s, p) == ParseLiteral(s, p, <<"t", "r", "u", "e">>, Bool(TRUE))
ParseFalse(s, p) == ParseLiteral(s, p, <<"f", "a", "l", "s", "e">>, Bool(FALSE))

\* parse_string: no escape processing; the Value is a substr of src
ParseString(s, p) ==
    LET from == p + 1
        end  == Find(s, DQ, from)
    IN  IF end = -1
        THEN {Outcome("error", Null, from, "Expected quote", -1, 0, Max(Len(s) - 1, from))}
        ELSE {Outcome("ret", String(SubSeq(s, from + 1, end)), end + 1, "",
                      from, end - from, end)}

\* the end of the run of digits, 'e' and '.' that starts at p
RECURSIVE RunEnd(_, _)
RunEnd(s, p) ==
    IF p < Len(s) /\ (IsDigit(At(s, p)) \/ At(s, p) = "e" \/ At(s, p) = ".")
    THEN RunEnd(s, p + 1) ELSE p

\* is_float
IsFloat(number) == \E i \in 1..Len(number) : number[i] = "." \/ number[i] = "e"

\* parse_number
ParseNumber(s, p) ==
    UNION {LET end == p + Len(number)
           IN  {IF res.ok
                THEN Outcome("ret", res.val, end, "", p, end - p, ScanHigh(s, p, end))
                ELSE Outcome("error", Null, end, "Invalid token", p, end - p, end) :
                res \in {IF IsFloat(number) THEN FromCharsFloat(number)
                                            ELSE FromCharsInteger(number)}} :
           number \in {SubSeq(s, p + 1, RunEnd(s, p))}}

\* parse_value's switch, for the bytes that do not open an array or an object
ParseScalar(s, p) ==
    CASE At(s, p) = "n" -> ParseNull(s, p)
      [] At(s, p) = "t" -> ParseTrue(s, p)
      [] At(s, p) = "f" -> ParseFalse(s, p)
      [] At(s, p) = DQ -> ParseString(s, p)
      [] OTHER -> ParseNumber(s, p)

(***************************************************************************)
(* json_reader: parse(), parse_value, parse_array and parse_object as      *)
(* steps. A call of parse_array or parse_object is a frame on the stack;   *)
(* an exception unwinds every frame.                                       *)
(***************************************************************************)
Top == stack[Len(stack)]
Pop == SubSeq(stack, 1, Len(stack) - 1)
SetTop(f) == [stack EXCEPT ![Len(stack)] = f]

ArrayFrame(items) == [kind |-> "array", items |-> items]
ObjectFrame(entries, phase, key) ==
    [kind |-> "object", entries |-> entries, phase |-> phase, key |-> key]

\* throw json_exception(msg) with the cursor at p
Raise(msg, p, hi) ==
    /\ status' = "error" /\ err' = msg
    /\ pos' = p
    /\ maxRead' = Max(maxRead, hi)
    /\ stack' = <<>> /\ ret' = Null
    /\ UNCHANGED <<src, root>>

\* json_reader::parse, up to its call of parse_value
Parse ==
    /\ status = "ready"
    /\ pos' = 0 /\ row' = 1 /\ column' = 0
    /\ status' = "value"
    /\ UNCHANGED <<src, stack, ret, root, err, slice, maxRead>>
    /\ UNCHANGED <<cowVars, docVars>>

\* json_reader::parse_value: skip_whitespace, the end-of-input test and the switch; a
\* scalar is parsed here, '[' and '{' enter parse_array / parse_object up to their loop
ParseValue ==
    /\ status = "value"
    /\ LET w  == SkipWhitespace(src, pos, row, column)
           hi == ScanHigh(src, pos, w.pos)
       IN  /\ IF w.pos >= Len(src)
              THEN /\ Raise("Unexpected end of input", w.pos, hi)
                   /\ row' = w.row /\ column' = w.column
                   /\ slice' = slice
              ELSE IF At(src, w.pos) \in {"[", "{"}
              THEN LET b == SkipWhitespace(src, w.pos + 1, w.row, w.column)
                   IN  /\ pos' = b.pos
                       /\ row' = b.row /\ column' = b.column
                       /\ maxRead' = Max(Max(maxRead, w.pos), ScanHigh(src, w.pos + 1, b.pos))
                       /\ stack' = Append(stack,
                                     IF At(src, w.pos) = "["
                                     THEN ArrayFrame(<<>>)
                                     ELSE ObjectFrame(<<>>, "key", <<>>))
                       /\ status' = IF At(src, w.pos) = "[" THEN "array" ELSE "object"
                       /\ UNCHANGED <<src, ret, root, err, slice>>
              ELSE \E o \in ParseScalar(src, w.pos) :
                       /\ status' = o.status /\ err' = o.err
                       /\ pos' = o.pos
                       /\ ret' = o.val
                       /\ slice' = IF o.slice.offset < 0 THEN slice ELSE o.slice
                       /\ maxRead' = Max(Max(maxRead, w.pos), o.hi)
                       /\ stack' = IF o.status = "ret" THEN stack ELSE <<>>
                       /\ row' = w.row /\ column' = w.column
                       /\ UNCHANGED <<src, root>>
    /\ UNCHANGED <<cowVars, docVars>>

\* a variant with a fault: an array that the text does not close is an error
ParseArrayLoopStrict ==
    /\ status = "array"
    /\ IF pos >= Len(src)
       THEN /\ Raise("Unexpected end of input", pos, -1)
            /\ UNCHANGED <<row, column, slice>>
       ELSE /\ IF At(src, pos) # "]"
               THEN /\ status' = "value"
                    /\ UNCHANGED <<pos, stack, ret>>
               ELSE /\ pos' = pos + 1
                    /\ ret' = Array(Top.items)
                    /\ stack' = Pop
                    /\ status' = "ret"
            /\ maxRead' = Max(maxRead, pos)
            /\ UNCHANGED <<src, row, column, root, err, slice>>
    /\ UNCHANGED <<cowVars, docVars>>

\* parse_array: the loop test; past it, pos++ and return arr
ParseArrayLoop ==
    /\ status = "array"
    /\ IF pos < Len(src) /\ At(src, pos) # "]"
       THEN /\ status' = "value"
            /\ UNCHANGED <<pos, stack, ret>>
       ELSE /\ pos' = pos + 1
            /\ ret' = Array(Top.items)
            /\ stack' = Pop
            /\ status' = "ret"
    /\ maxRead' = IF pos < Len(src) THEN Max(maxRead, pos) ELSE maxRead
    /\ UNCHANGED <<src, row, column, root, err, slice>>
    /\ UNCHANGED <<cowVars, docVars>>

\* parse_array: after parse_value returned, the optional ',', skip_whitespace, push_back
ParseArrayNext ==
    /\ status = "ret" /\ stack # <<>> /\ Top.kind = "array"
    /\ LET comma == pos < Len(src) /\ At(src, pos) = ","
           p     == IF comma THEN pos + 1 ELSE pos
           w     == SkipWhitespace(src, p, row, column)
       IN  /\ pos' = w.pos /\ row' = w.row /\ column' = w.column
           /\ maxRead' = Max(Max(maxRead, ScanHigh(src, pos, pos)), ScanHigh(src, p, w.pos))
    /\ stack' = SetTop(ArrayFrame(Append(Top.items, ret)))
    /\ status' = "array"
    /\ UNCHANGED <<src, ret, root, err, slice>>
    /\ UNCHANGED <<cowVars, docVars>>

\* parse_object: the loop test; past it, pos++ and return obj
ParseObjectLoop ==
    /\ status = "object"
    /\ IF pos < Len(src) /\ At(src, pos) # "}"
       THEN /\ status' = "value"
            /\ UNCHANGED <<pos, stack, ret>>
       ELSE /\ pos' = pos + 1
            /\ ret' = Object(Top.entries)
            /\ stack' = Pop
            /\ status' = "ret"
    /\ maxRead' = IF pos < Len(src) THEN Max(maxRead, pos) ELSE maxRead
    /\ UNCHANGED <<src, row, column, root, err, slice>>
    /\ UNCHANGED <<cowVars, docVars>>

\* parse_object: after the key's parse_value returned, the key must be a String and
\* a ':' must follow; then parse_value is called for the member's value
ParseObjectKey ==
    /\ status = "ret" /\ stack # <<>> /\ Top.kind = "object" /\ Top.phase = "key"
    /\ IF ret.kind # "String"
       THEN Raise("Key must be a string", pos, -1)
       ELSE IF pos < Len(src) /\ At(src, pos) = ":"
       THEN /\ pos' = pos + 1
            /\ stack' = SetTop(ObjectFrame(Top.entries, "value", ret.bytes))
            /\ status' = "value"
            /\ maxRead' = Max(maxRead, pos)
            /\ UNCHANGED <<src, ret, root, err>>
       ELSE Raise("Expected ':' after key", pos, pos)
    /\ UNCHANGED <<row, column, slice>>
    /\ UNCHANGED <<cowVars, docVars>>

\* parse_object: after the value's parse_value returned, the optional ',',
\* skip_whitespace and obj[key] = node{value}
ParseObjectMember ==
    /\ status = "ret" /\ stack # <<>> /\ Top.kind = "object" /\ Top.phase = "value"
    /\ LET comma == pos < Len(src) /\ At(src, pos) = ","
           p     == IF comma THEN pos + 1 ELSE pos
           w     == SkipWhitespace(src, p, row, column)
       IN  /\ pos' = w.pos /\ row' = w.row /\ column' = w.column
           /\ maxRead' = Max(Max(maxRead, ScanHigh(src, pos, pos)), ScanHigh(src, p, w.pos))
    /\ stack' = SetTop(ObjectFrame(MapAssign(Top.entries, Top.key, ret), "key", <<>>))
    /\ status' = "object"
    /\ UNCHANGED <<src, ret, root, err, slice>>
    /\ UNCHANGED <<cowVars, docVars>>

\* json_reader::parse: return node{ parse_value() }
ParseReturn ==
    /\ status = "ret" /\ stack = <<>>
    /\ root' = ret
    /\ status' = "done"
    /\ UNCHANGED <<src, pos, row, column, stack, ret, err, slice, maxRead>>
    /\ UNCHANGED <<cowVars, docVars>>

(***************************************************************************)
(* node::operator[] and json_writer::write on the parsed root              *)
(***************************************************************************)
Access(op, key, index, msg, fresh, value) ==
    [op |-> op, key |-> key, index |-> index, err |-> msg, fresh |-> fresh, value |-> value]

\* a variant with a fault: a node that is no Object is turned into one, as a map would be
NodeAtKeyAnyKind(value, key) ==
    LET entries == IF value.kind = "Object" THEN value.entries ELSE <<>>
    IN  [node |-> Object(MapIndex(entries, key)),
         acc  |-> Access("key", key, 0, "", ~MapHas(entries, key), Null)]

\* a variant with a fault: a key that is absent is not inserted
NodeAtKeyNoInsert(value, key) ==
    IF value.kind = "Object"
    THEN [node |-> value,
          acc  |-> Access("key", key, 0, "", ~MapHas(value.entries, key),
                          IF MapHas(value.entries, key) THEN MapAt(value.entries, key)
                          ELSE Null)]
    ELSE [node |-> value, acc |-> Access("key", key, 0, "not an object", FALSE, NoNode)]

\* node::operator[](std::string_view): [node, acc], the node after the call and what
\* the call gave: the entry's Value, or the std::runtime_error's message
NodeAtKey(value, key) ==
    IF value.kind = "Object"
    THEN LET entries == MapIndex(value.entries, key)
         IN  [node |-> Object(entries),
              acc  |-> Access("key", key, 0, "", ~MapHas(value.entries, key),
                              MapAt(entries, key))]
    ELSE [node |-> value, acc |-> Access("key", key, 0, "not an object", FALSE, NoNode)]

\* node::operator[](size_t): std::vector::operator[] past the end is undefined behaviour
NodeAtIndex(value, index) ==
    IF value.kind = "Array"
    THEN IF index < Len(value.items)
         THEN {Access("index", <<>>, index, "", FALSE, value.items[index + 1])}
         ELSE {Access("index", <<>>, index, "undefined", FALSE, v) : v \in {NoNode, Null}}
    ELSE {Access("index", <<>>, index, "not an array", FALSE, NoNode)}

AccessKeys == {<<"a">>, <<"b">>}
AccessIndexes == {0, 1}

KeyedAccess(key) ==
    /\ status = "done"
    /\ LET r == NodeAtKey(root, key)
       IN  root' = r.node /\ acc' = r.acc
    /\ UNCHANGED <<src, pos, row, column, stack, status, ret, err, slice, maxRead>>
    /\ UNCHANGED <<cowVars, doc, out, members>>

IndexedAccess(index) ==
    /\ status = "done"
    /\ acc' \in NodeAtIndex(root, index)
    /\ UNCHANGED <<readerVars, cowVars, doc, out, members>>

\* json_writer::write(node) on the node the reader returned, as test_parser does
WriteRoot ==
    /\ status = "done"
    /\ out' = WriteText(root)
    /\ status' = "emitted"
    /\ UNCHANGED <<src, pos, row, column, stack, ret, root, err, slice, maxRead>>
    /\ UNCHANGED <<cowVars, doc, members, acc>>

\* json_writer::write(node) on a node built by the caller
WriteDoc ==
    /\ status = "write"
    /\ out' = WriteText(doc)
    /\ status' = "written"
    /\ UNCHANGED <<src, pos, row, column, stack, ret, root, err, slice, maxRead>>
    /\ UNCHANGED <<cowVars, doc, members, acc>>

\* the text without its final run of ']' and '}'
RECURSIVE StripClosers(_)
StripClosers(text) ==
    IF text # <<>> /\ text[Len(text)] \in {"]", "}"}
    THEN StripClosers(SubSeq(text, 1, Len(text) - 1)) ELSE text

\* json_reader::json_reader(src) over the text just written, whole or with its
\* closing delimiters lost
NewReader ==
    /\ status = "written"
    /\ src' \in {out, StripClosers(out)}
    /\ pos' = 0 /\ row' = 1 /\ column' = 0
    /\ status' = "ready"
    /\ UNCHANGED <<stack, ret, root, err, slice, maxRead>>
    /\ UNCHANGED <<cowVars, docVars>>

(***************************************************************************)
(* Inputs: the texts a reader is constructed over, the nodes a writer is   *)
(* given.                                                                  *)
(***************************************************************************)
MaxLen == 3         \* length of the texts over TextBytes, all of which are inputs
MaxRun == 5         \* length of the texts over NumberBytes, all of which are inputs
MaxMembers == 3     \* members of an object text
MaxNodes == 3       \* nodes of a tree given to the writer

TextBytes == {"[", "]", "{", "}", DQ, ":", ",", "1", "n", " "}
NumberBytes == {"1", "2", ".", "e"}

Sample1 ==
    <<"{", DQ, "a", DQ, ":", "1", ",", DQ, "b", DQ, ":", "[", "1", ",", "2", ",", "3",
    "]", ",", DQ, "c", DQ, ":", "{", DQ, "d", DQ, ":", "t", "r", "u", "e", ",", DQ, "e",
    DQ, ":", "n", "u", "l", "l", "}", ",", DQ, "f", DQ, ":", "2", ".", "5", "}">>
Sample2 ==
    <<"[", "1", ",", "2", ",", "3", "]">>
Sample3 ==
    <<"{", DQ, "a", DQ, ":", "}">>
Sample4 ==
    <<DQ, "h", "e", "l", "l", "o", DQ>>
Sample5 ==
    <<"{", DQ, "a", DQ, ":", "1", ",", DQ, "a", DQ, ":", "2", "}">>
\* further texts: literals cut short, white space, numbers at the edges of the range
OtherTexts == {
    <<"n">>,
    <<"n", "u">>,
    <<"n", "u", "l">>,
    <<"n", "u", "l", "l">>,
    <<"t">>,
    <<"t", "r", "u", "e">>,
    <<"f">>,
    <<"f", "a", "l", "s">>,
    <<"f", "a", "l", "s", "e">>,
    <<"[", "n", "u", "l", "l">>,
    <<"[", "n", "u", "l", "]">>,
    <<"[", "t", "r", "u", "e", ",", "f", "a", "l", "s", "e", "]">>,
    <<"[", "n", "]">>,
    <<"[", " ", "1", " ", ",", "\n", " ", "2", " ", "]">>,
    <<"9", "9", "9", "9", "9", "9", "9", "9", "9", "9", "9", "9", "9", "9", "9", "9",
    "9", "9", "9", "9">>,
    <<"1", "e", "1", "0">>,
    <<"1", "0", "0">>,
    <<"1", "e", "9", "9", "9">>,
    <<"{", DQ, "b", DQ, ":", "1", ",", DQ, "a", "b", DQ, ":", "2", ",", DQ, "a", DQ,
    ":", "3", "}">>,
    <<"[", "1", ",", "[", "2", ",", "{", DQ, "a", DQ, ":", "[", "]", "}", "]", ",", DQ,
    "x", DQ, "]">>,
    <<"{", DQ, "a", DQ, " ", ":", "1", "}">>,
    <<"-", "1">>,
    <<"1", "e", "+", "1", "0">>}

Texts ==
    SeqsUpTo(TextBytes, MaxLen) \cup SeqsUpTo(NumberBytes, MaxRun)
        \cup {Sample1, Sample2, Sample3, Sample4, Sample5} \cup OtherTexts

\* object texts: "{", members "key":value separated by ",", "}"
MemberKeys == {<<>>, <<"a">>, <<"a", "b">>, <<"b">>}
MemberValues == {1, 2}
Members == [key : MemberKeys, value : MemberValues]
MemberLists == SeqsUpTo(Members, MaxMembers)

MemberBytes(m) == <<DQ>> \o m.key \o <<DQ, ":">> \o NatText(m.value)
RECURSIVE JoinMembers(_)
JoinMembers(ms) ==
    IF ms = <<>> THEN <<>>
    ELSE IF Len(ms) = 1 THEN MemberBytes(ms[1])
    ELSE MemberBytes(ms[1]) \o <<",">> \o JoinMembers(Tail(ms))
MemberText(ms) == <<"{">> \o JoinMembers(ms) \o <<"}">>

\* object texts whose last member is malformed: no value, no ':', a key that is no
\* string; then "}", the end of the text, or a further member
BadMembers == {
    <<DQ, "a", DQ, ":">>,
    <<DQ, "a", DQ, ":", " ">>,
    <<DQ, "a", DQ>>,
    <<DQ, "a", DQ, "1">>,
    <<DQ, "a", DQ, " ", ":", "1">>,
    <<"1", ":", "2">>,
    <<"[", "]", ":", "1">>,
    <<"n", "u", "l", "l", ":", "1">>,
    <<"{", "}", ":", "1">>,
    <<":", "1">>}
BadTails == {<<"}">>, <<>>, <<",", DQ, "b", DQ, ":", "1", "}">>}
BadMemberTexts ==
    {<<"{">> \o JoinMembers(ms) \o (IF ms = <<>> THEN <<>> ELSE <<",">>) \o bad \o tail :
        ms \in {l \in MemberLists : Len(l) < MaxMembers - 1}, bad \in BadMembers,
        tail \in BadTails}

\* the nodes given to the writer: the trees of at most MaxNodes nodes over these
\* scalars, with Object keys among DocKeys
Scalars == {Null, Bool(TRUE), Integer(1), Integer(-1), Float(<<2, 5>>, 0), Float(<<1>>, 0),
            String(<<"a">>)}
DocKeys == <<<<"a">>, <<"b">>>>

\* the ways to key n entries: increasing positions in DocKeys
KeyChoices(n) ==
    {ks \in [1..n -> 1..Len(DocKeys)] : \A i \in 1..n, j \in 1..n : i < j => ks[i] < ks[j]}

RECURSIVE TreesOfSize(_)
RECURSIVE ListsOfSize(_)
ListsOfSize(n) ==
    IF n = 0 THEN {<<>>}
    ELSE UNION {{<<v>> \o rest : v \in TreesOfSize(j), rest \in ListsOfSize(n - j)} :
                    j \in 1..n}
TreesOfSize(k) ==
    (IF k = 1 THEN Scalars ELSE {})
        \cup {Array(items) : items \in ListsOfSize(k - 1)}
        \cup UNION {{Object([i \in 1..Len(items) |->
                                [key |-> DocKeys[ks[i]], value |-> items[i]]]) :
                         ks \in KeyChoices(Len(items))} : items \in ListsOfSize(k - 1)}

Trees == UNION {TreesOfSize(k) : k \in 1..MaxNodes}

(***************************************************************************)
(* The reader and the writer at work                                       *)
(***************************************************************************)
Init ==
    /\ heap = [b \in BufIds |-> <<>>]
    /\ strs = [s \in Slots |-> NoStr]
    /\ lastOp = [op |-> "none"]
    /\ pos = 0 /\ row = 1 /\ column = 0
    /\ stack = <<>> /\ ret = Null /\ root = NoNode /\ err = ""
    /\ slice = [offset |-> 0, length |-> 0]
    /\ maxRead = -1
    /\ out = <<>>
    /\ acc = Access("none", <<>>, 0, "", FALSE, NoNode)
    /\ \/ /\ doc \in Trees
          /\ status = "write" /\ src = <<>> /\ members = <<>>
       \/ /\ doc = NoNode /\ status = "ready"
          /\ src \in Texts \cup BadMemberTexts
          /\ members = <<>>
       \/ /\ doc = NoNode /\ status = "ready"
          /\ members \in MemberLists
          /\ src = MemberText(members)

Next ==
    \/ WriteDoc
    \/ NewReader
    \/ Parse
    \/ ParseValue
    \/ ParseArrayLoop
    \/ ParseArrayNext
    \/ ParseObjectLoop
    \/ ParseObjectKey
    \/ ParseObjectMember
    \/ ParseReturn
    \/ \E key \in AccessKeys : KeyedAccess(key)
    \/ \E index \in AccessIndexes : IndexedAccess(index)
    \/ WriteRoot

Spec == Init /\ [][Next]_vars

\* the steps of one call of json_reader::parse
ReaderStep ==
    \/ Parse
    \/ ParseValue
    \/ ParseArrayLoop
    \/ ParseArrayNext
    \/ ParseObjectLoop
    \/ ParseObjectKey
    \/ ParseObjectMember
    \/ ParseReturn

\* the thread that called parse() runs on: a call that has begun takes its next step
FairSpec == Spec /\ WF_vars(ReaderStep)

(***************************************************************************)
(* What the claims speak of                                                *)
(***************************************************************************)
Returned == status = "done" /\ acc.op = "none"
Ended == status \in {"done", "emitted", "error", "undefined"}
InObject == stack # <<>> /\ Top.kind = "object"

\* byte-wise order: the first differing byte decides, a proper prefix comes first
BytewiseBefore(a, b) ==
    \/ \E i \in 1..Min(Len(a), Len(b)) :
           /\ SubSeq(a, 1, i - 1) = SubSeq(b, 1, i - 1)
           /\ Ord(a[i]) < Ord(b[i])
    \/ Len(a) < Len(b) /\ a = SubSeq(b, 1, Len(a))

HasKey(entries, key) == \E i \in 1..Len(entries) : entries[i].key = key
ValueOf(entries, key) == entries[CHOOSE i \in 1..Len(entries) : entries[i].key = key].value

(***************************************************************************)
(* C2. Every cow_string the reader takes with substr lies inside the       *)
(* text: offset + length <= size. (Fails: the literal windows of           *)
(* parse_null, parse_true and parse_false are 4 or 5 bytes whatever is     *)
(* left of the text.)                                                      *)
(***************************************************************************)
C2_SliceInBuffer == slice.offset + slice.length <= Len(src)

(***************************************************************************)
(* C3. Round trip: the text the writer emits for a tree parses, and to the *)
(* same tree. (Fails: a Float without a fraction is written like an        *)
(* Integer, a negative Integer is written with a sign the reader rejects.) *)
(***************************************************************************)
C3_RoundTrip ==
    (doc # NoNode /\ src = WriteText(doc) /\ (Ended \/ Returned)) =>
        /\ status \notin {"error", "undefined"}
        /\ Returned => root = doc

(***************************************************************************)
(* C4. A text that is one run of digits, '.' and 'e': when the run is not  *)
(* a single numeral (digits with at most one '.', then at most one         *)
(* exponent, 'e' and digits) parse raises and returns no node; when it     *)
(* parses, the Value is a Float if the run has a '.' or an 'e' and an      *)
(* Integer otherwise. (Fails: from_chars converts a prefix of the run.)    *)
(***************************************************************************)
IsRun(text) ==
    text # <<>> /\ \A i \in 1..Len(text) : IsDigit(text[i]) \/ text[i] \in {".", "e"}

IsNumeral(text) ==
    \E d \in 1..(Len(text) + 1), e \in 1..(Len(text) + 1) :
        \* d: where the '.' is, or Len + 1; e: where the 'e' is, or Len + 1
        /\ d <= e
        /\ \A i \in 1..Len(text) : (i # d /\ i # e) => IsDigit(text[i])
        /\ d <= Len(text) => text[d] = "." /\ d < e
        /\ e <= Len(text) => text[e] = "e" /\ e < Len(text)
        /\ \E i \in 1..(e - 1) : i # d

C4_MalformedNumberRaises ==
    (IsRun(src) /\ (Ended \/ Returned)) =>
        /\ ~IsNumeral(src) => (status = "error" /\ root = NoNode)
        /\ Returned => root.kind = (IF IsFloat(src) THEN "Float" ELSE "Integer")

(***************************************************************************)
(* C5. The Object parsed from an object text holds each distinct key once, *)
(* with the value of the key's last member, in byte-wise key order.        *)
(***************************************************************************)
ExpectedEntries(ms) ==
    LET keys  == {ms[i].key : i \in 1..Len(ms)}
        at(k) == 1 + Cardinality({j \in keys : BytewiseBefore(j, k)})
        last(k) == CHOOSE i \in 1..Len(ms) :
                       ms[i].key = k /\ \A j \in 1..Len(ms) : ms[j].key = k => j <= i
    IN  [n \in 1..Cardinality(keys) |->
            LET k == CHOOSE key \in keys : at(key) = n
            IN  [key |-> k, value |-> Integer(ms[last(k)].value)]]

C5_ObjectLastWriteWins ==
    (src = MemberText(members) /\ doc = NoNode) =>
        /\ status \notin {"error", "undefined"}
        /\ Returned => root = Object(ExpectedEntries(members))

\* parsed: a text with a key given twice with two values, and keys out of order
C5_Witness ==
    /\ Returned /\ src = MemberText(members)
    /\ \E i \in 1..Len(members), j \in 1..Len(members) :
           i < j /\ members[i].key = members[j].key /\ members[i].value # members[j].value
    /\ \E i \in 1..Len(members), j \in 1..Len(members) :
           i < j /\ BytewiseBefore(members[j].key, members[i].key)
                 /\ Len(members[i].key) < Len(members[j].key)

C7_WrongKindAccessFails ==
    [][(status = "done" /\ status' = "done") =>
          /\ (acc'.op = "key" /\ root.kind # "Object") =>
                 (acc'.err = "not an object" /\ root' = root)
          /\ (acc'.op = "index" /\ root.kind # "Array") =>
                 (acc'.err = "not an array" /\ root' = root)
    ]_vars

\* the String parsed from "hello", indexed as an array and as an object
C7_Witness ==
    /\ src = Sample4 /\ root = String(<<"h", "e", "l", "l", "o">>)
    /\ acc.op \in {"index", "key"}
    /\ acc.err \in {"not an array", "not an object"}

(***************************************************************************)
(* C8. An array or object text that lost its final run of ']' and '}'      *)
(* parses without error to the tree of the whole text, and no read of the  *)
(* text goes past index size.                                              *)
(***************************************************************************)
\* the trees whose text is in the reader's grammar: no sign, no exponent, a Float
\* with a fraction, no '"' in a String
RECURSIVE InGrammar(_)
InGrammar(v) ==
    CASE v.kind = "Integer" -> v.n >= 0
      [] v.kind = "Float" ->
             Len(v.digits) <= Precision /\ v.exp10 >= -4 /\ v.exp10 + 1 < Len(v.digits)
      [] v.kind = "String" -> \A i \in 1..Len(v.bytes) : v.bytes[i] \notin {DQ, NUL}
      [] v.kind = "Array" -> \A i \in 1..Len(v.items) : InGrammar(v.items[i])
      [] v.kind = "Object" ->
             \A i \in 1..Len(v.entries) :
                 /\ InGrammar(v.entries[i].value)
                 /\ \A j \in 1..Len(v.entries[i].key) : v.entries[i].key[j] \notin {DQ, NUL}
      [] OTHER -> TRUE

C8_LenientEndOfInput ==
    (/\ doc.kind \in {"Array", "Object"} /\ InGrammar(doc)
     /\ status \notin {"write", "written"}
     /\ src \in {WriteText(doc), StripClosers(WriteText(doc))}) =>
        /\ status \notin {"error", "undefined"}
        /\ maxRead <= Len(src)
        /\ Returned => root = doc

\* parsed: a nested container whose text lost two closing delimiters
C8_Witness ==
    /\ Returned /\ root = doc
    /\ doc.kind \in {"Array", "Object"} /\ InGrammar(doc)
    /\ Len(src) + 2 = Len(WriteText(doc))
    /\ pos > Len(src) + 1

ParseEnds == (status = "ready") ~> Ended

(***************************************************************************)
(* C10. node[key] on an Object never fails: a key that is present is       *)
(* returned and the Object is unchanged; a key that is absent is inserted  *)
(* with Null, the Object grows by that one entry, and it is returned.      *)
(***************************************************************************)
C10_KeyedAccessInserts ==
    [][(status = "done" /\ status' = "done" /\ acc'.op = "key" /\ root.kind = "Object") =>
          LET key == acc'.key
              old == root.entries
              new == root'.entries
          IN  /\ acc'.err = ""
              /\ root'.kind = "Object"
              /\ HasKey(new, key) /\ acc'.value = ValueOf(new, key)
              /\ \A i \in 1..Len(old) : HasKey(new, old[i].key)
                                        /\ ValueOf(new, old[i].key) = old[i].value
              /\ IF HasKey(old, key) THEN root' = root
                 ELSE /\ Len(new) = Len(old) + 1
                      /\ ValueOf(new, key) = Null
    ]_vars

\* a key that the text did not have was asked for, and is now in the Object with Null
C10_Witness ==
    /\ status = "done" /\ acc.op = "key" /\ acc.fresh /\ acc.err = ""
    /\ root.kind = "Object" /\ Len(root.entries) >= 2
    /\ ValueOf(root.entries, acc.key) = Null
    /\ src = MemberText(members) /\ \A i \in 1..Len(members) : members[i].key # acc.key

=============================================================================
